---- MODULE Spec2Model ----
(***************************************************************************)
(* selena: the two random samplers of include/random.hpp (random_prng,     *)
(* random_trng) and the case-insensitive search of the utilities header    *)
(* (iequal, icontains).                                                    *)
(*                                                                         *)
(* The samplers are static member functions over thread_local state, so    *)
(* the model has a set of threads; every thread owns one random_prng pair  *)
(* (random_device_seed, generator) and one random_trng device.  A call of  *)
(* random(...) is one step up to its first return or up to the entry of    *)
(* its for loop; every loop iteration is a step of its own, so that calls  *)
(* of different threads interleave between draws.                          *)
(*                                                                         *)
(* std::uniform_int_distribution, std::mt19937_64 and std::random_device   *)
(* are the standard library's: the model keeps what the C++ standard fixes *)
(* (the result lies in [a, b]; an engine advances by one per invocation;   *)
(* every random_device invocation is one entropy query) and leaves open    *)
(* what it does not fix (which value is produced; how many times a         *)
(* distribution invokes its engine for one result).                        *)
(***************************************************************************)
EXTENDS Integers, Sequences, FiniteSets, TLC

\* ---------------------------------------------------------------- bounds
NThreads == 2
MaxLen == 2
MaxCount == 2
MaxCalls == 2
MaxOps == 3
MaxThreadOps == 1
MaxStr == 2

\* size_t arithmetic is modular; SizeMod stands for 2^64
SizeMod == 16

Threads == 1..NThreads

\* T is int: values 1..MaxLen are stored in the inputs, T{} is 0, and
\* Garbage is whatever an out-of-range read returns.
Default == 0
Garbage == 99

\* the inputs: for every length 0..MaxLen the sequence <<n, ..., 2, 1>>, whose
\* elements are distinct, differ from T{} and differ from their index
Input(n) == [k \in 1..n |-> n + 1 - k]
Inputs == {Input(n) : n \in 0..MaxLen}

\* the classes random_prng and random_trng
Samplers == {"prng", "trng"}
\* the four overloads of random: random(vec), random(vec, count), random(arr),
\* random<Count>(arr)
Ops == {"vec_one", "vec_n", "arr_one", "arr_n"}

\* ------------------------------------------------------- standard library
\* std::uniform_int_distribution<size_t> distribution{ 0, size - 1 }
\* (faulty variant: the upper bound is size)
AsOffByOneDist(size) == [a |-> 0, b |-> size % SizeMod]
Dist(size) == [a |-> 0, b |-> (size - 1) % SizeMod]

\* the results distribution(engine) can have
DistValues(d) == d.a .. d.b

\* the number of times one distribution(engine) invokes engine(): at least
\* once when there is something to choose; a distribution over one value may
\* return it without invoking the engine (libc++ does)
DistCalls(d) == IF d.a = d.b THEN 0..MaxCalls ELSE 1..MaxCalls

\* vec[i], arr[i]: an element of the sequence, or an out-of-range read
At(S, i) == IF i < Len(S) THEN {S[i + 1]} ELSE {Default, Garbage}


\* ------------------------------------------------------------------ state
VARIABLES
  pc,         \* per thread: "idle", "loop" (inside the for loop), "done" (returned)
  call,       \* per thread: the running call, its arguments and the path it took
  i,          \* per thread: the loop variable i
  dist,       \* per thread: the call's distribution object, NoDist before it is built
  engineRef,  \* per thread: the instance the local reference `engine` is bound to, 0 if none
  retElem,    \* per thread: the T a single pick returned, NoElem if none
  retSeq,     \* per thread: ret_vec / ret_arr
  drawn,      \* per thread: the indices drawn by the call, in draw order
  queries,    \* per thread: random_device invocations made by the call's draws
  prng,       \* per instance: random_prng's thread_local random_device_seed and generator
  trng,       \* per instance: random_trng's thread_local device
  prngUsers,  \* per instance: the threads that have accessed that generator
  trngUsers,  \* per instance: the threads that have accessed that device
  drawOps,    \* per thread: it has begun a random_prng call on a non-empty input with a non-zero count
  opsLeft,    \* per thread: the calls it may still begin
  text, target, found, spc   \* icontains: its arguments, its result, its position

samplerVars == <<pc, call, i, dist, engineRef, retElem, retSeq, drawn, queries,
                 prng, trng, prngUsers, trngUsers, drawOps, opsLeft>>
strVars == <<text, target, found, spc>>
vars == <<samplerVars, strVars>>

NoCall == [sampler |-> "none", op |-> "none", seq |-> <<>>, count |-> 0, path |-> "none"]
NoDist == [a |-> -1, b |-> -1]
NoElem == -1

NoPrng == [constructed |-> FALSE, reads |-> 0, pos |-> 0]
NoTrng == [constructed |-> FALSE]

\* ------------------------------------------------------------ the engines
\* static thread_local random_device random_device_seed{};
\* static thread_local mt19937_64 generator{ random_device_seed() };
\* initialised the first time control passes through them, by one read of the device
\* (faulty variant: the two are not static, every call seeds a new generator)
AsReseedEveryCall(g) == [constructed |-> TRUE, reads |-> g.reads + 1, pos |-> 0]
PrngInit(g) ==
  IF g.constructed THEN g
  ELSE [constructed |-> TRUE, reads |-> g.reads + 1, pos |-> 0]

\* static thread_local random_device device{};
TrngInit(g) == IF g.constructed THEN g ELSE [constructed |-> TRUE]

\* the instance a thread's call of _impl_prng_engine() / _impl_trng_engine()
\* returns: thread_local gives every thread its own
\* (faulty variant: static without thread_local, one instance for all threads)
AsSharedStatic(t) == 1
_impl_prng_engine(t) == t
_impl_trng_engine(t) == t

\* the engine the functions of a class draw from: random_prng calls
\* _impl_prng_engine(), random_trng calls _impl_trng_engine()
\* (faulty variant: random_trng draws from the cached generator too)
AsPrngEverywhere(sampler) == "prng"
EngineOf(sampler) == sampler

InstanceOf(t, kind) == IF kind = "prng" THEN _impl_prng_engine(t) ELSE _impl_trng_engine(t)

\* the thread_local state after thread t has called _impl_<kind>_engine()
PrngAcquired(t, kind) ==
  IF kind = "prng" THEN [prng EXCEPT ![InstanceOf(t, kind)] = PrngInit(@)] ELSE prng
TrngAcquired(t, kind) ==
  IF kind = "trng" THEN [trng EXCEPT ![InstanceOf(t, kind)] = TrngInit(@)] ELSE trng

\* thread t accesses the instance inst of the engine kind
Access(t, kind, inst) ==
  /\ prngUsers' = IF kind = "prng" THEN [prngUsers EXCEPT ![inst] = @ \cup {t}] ELSE prngUsers
  /\ trngUsers' = IF kind = "trng" THEN [trngUsers EXCEPT ![inst] = @ \cup {t}] ELSE trngUsers

\* ------------------------------------------------------------- the paths
\* the early returns of the four functions, in the order of the code
\* (faulty variants: the empty() checks are missing; the count checks are missing)
AsNoEmptyCheck(op, S, count) ==
  CASE op \in {"vec_one", "arr_one"} -> "one"
    [] op = "vec_n" -> IF count = 0 THEN "zero" ELSE IF count = 1 THEN "one" ELSE "loop"
    [] op = "arr_n" -> IF count = 0 THEN "zero" ELSE "loop"
AsNoZeroCheck(op, S, count) ==
  CASE op \in {"vec_one", "arr_one"} -> IF Len(S) = 0 THEN "empty" ELSE "one"
    [] op = "vec_n" -> IF Len(S) = 0 THEN "empty" ELSE IF count = 1 THEN "one" ELSE "loop"
    [] op = "arr_n" -> IF Len(S) = 0 THEN "empty" ELSE "loop"
Path(op, S, count) ==
  CASE op \in {"vec_one", "arr_one"} -> IF Len(S) = 0 THEN "empty" ELSE "one"
    [] op = "vec_n" -> IF Len(S) = 0 THEN "empty"
                       ELSE IF count = 0 THEN "zero"
                       ELSE IF count = 1 THEN "one"
                       ELSE "loop"
    [] op = "arr_n" -> IF Len(S) = 0 THEN "empty"
                       ELSE IF count = 0 THEN "zero"
                       ELSE "loop"

\* for (size_t i{ 0 }; i < count; ++i)
\* (faulty variant: the loop stops one iteration early)
AsStopEarly(k, count) == k + 1 < count
LoopCond(k, count) == k < count

\* ret_vec.push_back(x)
\* (faulty variant: the element is put in front)
AsPushFront(v, x) == <<x>> \o v
PushBack(v, x) == Append(v, x)

\* ret_arr[k] = x
ArrStore(a, k, x) == [a EXCEPT ![k + 1] = x]

\* std::array<T, Count>{}
DefaultArr(count) == [j \in 1..count |-> Default]

CountsFor(op) == IF op \in {"vec_n", "arr_n"} THEN 0..MaxCount ELSE {0}
IsPickN(op) == op \in {"vec_n", "arr_n"}


\* ------------------------------------------------------------ the actions
\* distribution(engine) on the instance inst of the engine kind, invoking it n times:
\* the generator advances by n; every invocation of a random_device is an entropy query
Invoke(t, kind, inst, n, p, q) ==
  /\ prng' = IF kind = "prng" THEN [p EXCEPT ![inst].pos = @ + n] ELSE p
  /\ queries' = [queries EXCEPT ![t] = q + IF kind = "trng" THEN n ELSE 0]

CanCall(t) == pc[t] \in {"idle", "done"} /\ opsLeft[t] > 0

Begin(t, sampler, op, S, count, path) ==
  /\ opsLeft' = [opsLeft EXCEPT ![t] = @ - 1]
  /\ call' = [call EXCEPT ![t] =
                [sampler |-> sampler, op |-> op, seq |-> S, count |-> count, path |-> path]]
  /\ drawOps' = [drawOps EXCEPT ![t] =
                   @ \/ (sampler = "prng" /\ Len(S) >= 1 /\ (IsPickN(op) => count >= 1))]

\* if (vec.empty()) return {};  if (!count) return {};  if constexpr (!Count) return {};
CallReturn(t) ==
  /\ CanCall(t)
  /\ \E sampler \in Samplers, op \in Ops, S \in Inputs :
    \E count \in CountsFor(op), path \in {"empty", "zero"} :
      /\ path = Path(op, S, count)
      /\ Begin(t, sampler, op, S, count, path)
      /\ pc' = [pc EXCEPT ![t] = "done"]
      /\ retElem' = [retElem EXCEPT ![t] = IF IsPickN(op) THEN NoElem ELSE Default]
      /\ retSeq' = [retSeq EXCEPT ![t] =
                      IF op = "arr_n" /\ path = "empty" THEN DefaultArr(count) ELSE <<>>]
      /\ dist' = [dist EXCEPT ![t] = NoDist]
      /\ drawn' = [drawn EXCEPT ![t] = <<>>]
      /\ queries' = [queries EXCEPT ![t] = 0]
      /\ i' = [i EXCEPT ![t] = 0]
      /\ UNCHANGED <<engineRef, prng, trng, prngUsers, trngUsers>>
      /\ UNCHANGED strVars

\* distribution{ 0, size - 1 }; return vec[distribution(_impl_engine())];
\* also reached from random(vec, 1): return { random(vec) };
CallOne(t) ==
  /\ CanCall(t)
  /\ \E sampler \in Samplers, op \in Ops, S \in Inputs :
    \E count \in CountsFor(op) :
      /\ Path(op, S, count) = "one"
      /\ LET d == Dist(Len(S))
             kind == EngineOf(sampler)
             inst == InstanceOf(t, kind)
         IN  \E n \in DistCalls(d), idx \in DistValues(d) :
            \E x \in At(S, idx) :
              /\ Begin(t, sampler, op, S, count, "one")
              /\ pc' = [pc EXCEPT ![t] = "done"]
              /\ dist' = [dist EXCEPT ![t] = d]
              /\ trng' = TrngAcquired(t, kind)
              /\ Access(t, kind, inst)
              /\ Invoke(t, kind, inst, n, PrngAcquired(t, kind), 0)
              /\ drawn' = [drawn EXCEPT ![t] = <<idx>>]
              /\ retElem' = [retElem EXCEPT ![t] = IF IsPickN(op) THEN NoElem ELSE x]
              /\ retSeq' = [retSeq EXCEPT ![t] = IF IsPickN(op) THEN <<x>> ELSE <<>>]
              /\ i' = [i EXCEPT ![t] = 0]
              /\ UNCHANGED engineRef
              /\ UNCHANGED strVars

\* ret_vec{} / ret_arr{}; distribution{ 0, size - 1 }; engine{ _impl_engine() }; i{ 0 }
CallLoop(t) ==
  /\ CanCall(t)
  /\ \E sampler \in Samplers, op \in Ops, S \in Inputs :
    \E count \in CountsFor(op) :
      LET kind == EngineOf(sampler)
      IN  /\ Path(op, S, count) = "loop"
          /\ Begin(t, sampler, op, S, count, "loop")
          /\ pc' = [pc EXCEPT ![t] = "loop"]
          /\ retSeq' = [retSeq EXCEPT ![t] = IF op = "arr_n" THEN DefaultArr(count) ELSE <<>>]
          /\ dist' = [dist EXCEPT ![t] = Dist(Len(S))]
          /\ prng' = PrngAcquired(t, kind)
          /\ trng' = TrngAcquired(t, kind)
          /\ Access(t, kind, InstanceOf(t, kind))
          /\ engineRef' = [engineRef EXCEPT ![t] = InstanceOf(t, kind)]
          /\ i' = [i EXCEPT ![t] = 0]
          /\ retElem' = [retElem EXCEPT ![t] = NoElem]
          /\ drawn' = [drawn EXCEPT ![t] = <<>>]
          /\ queries' = [queries EXCEPT ![t] = 0]
          /\ UNCHANGED strVars

\* i < count: ret_vec.push_back(vec[distribution(engine)]) / ret_arr[i] = arr[distribution(engine)]; ++i
LoopIter(t) ==
  /\ pc[t] = "loop"
  /\ LoopCond(i[t], call[t].count)
  /\ LET c == call[t]
         kind == EngineOf(c.sampler)
         inst == engineRef[t]
     IN  \E n \in DistCalls(dist[t]), idx \in DistValues(dist[t]) :
           \E x \in At(c.seq, idx) :
             /\ Invoke(t, kind, inst, n, prng, queries[t])
             /\ Access(t, kind, inst)
             /\ drawn' = [drawn EXCEPT ![t] = Append(@, idx)]
             /\ retSeq' = [retSeq EXCEPT ![t] =
                             IF c.op = "arr_n" THEN ArrStore(@, i[t], x) ELSE PushBack(@, x)]
             /\ i' = [i EXCEPT ![t] = @ + 1]
  /\ UNCHANGED <<pc, call, dist, engineRef, retElem, trng, drawOps, opsLeft>>
  /\ UNCHANGED strVars

\* !(i < count): return ret_vec / ret_arr, the reference `engine` goes out of scope
LoopExit(t) ==
  /\ pc[t] = "loop"
  /\ ~LoopCond(i[t], call[t].count)
  /\ pc' = [pc EXCEPT ![t] = "done"]
  /\ engineRef' = [engineRef EXCEPT ![t] = 0]
  /\ UNCHANGED <<call, i, dist, retElem, retSeq, drawn, queries,
                 prng, trng, prngUsers, trngUsers, drawOps, opsLeft>>
  /\ UNCHANGED strVars

StrIdle ==
  /\ text = <<>>
  /\ target = <<>>
  /\ found = FALSE
  /\ spc = "off"

SamplerInit ==
  /\ pc = [t \in Threads |-> "idle"]
  /\ call = [t \in Threads |-> NoCall]
  /\ i = [t \in Threads |-> 0]
  /\ dist = [t \in Threads |-> NoDist]
  /\ engineRef = [t \in Threads |-> 0]
  /\ retElem = [t \in Threads |-> NoElem]
  /\ retSeq = [t \in Threads |-> <<>>]
  /\ drawn = [t \in Threads |-> <<>>]
  /\ queries = [t \in Threads |-> 0]
  /\ prng = [t \in Threads |-> NoPrng]
  /\ trng = [t \in Threads |-> NoTrng]
  /\ prngUsers = [t \in Threads |-> {}]
  /\ trngUsers = [t \in Threads |-> {}]
  /\ drawOps = [t \in Threads |-> FALSE]

\* a program whose thread 1 makes up to MaxOps calls, one after the other
Init ==
  /\ SamplerInit
  /\ opsLeft = [t \in Threads |-> IF t = 1 THEN MaxOps ELSE 0]
  /\ StrIdle

\* a program whose threads make up to MaxThreadOps calls each, concurrently
InitThreads ==
  /\ SamplerInit
  /\ opsLeft = [t \in Threads |-> MaxThreadOps]
  /\ StrIdle

Next ==
  \E t \in Threads :
    \/ CallReturn(t)
    \/ CallOne(t)
    \/ CallLoop(t)
    \/ LoopIter(t)
    \/ LoopExit(t)

Spec == Init /\ [][Next]_vars

SpecThreads == InitThreads /\ [][Next]_vars


\* ------------------------------------------------------------- icontains
\* the characters 'A', 'a', 'b' and '-'
Chars == {65, 97, 98, 45}

\* std::tolower in the "C" locale
tolower(c) == IF c \in 65..90 THEN c + 32 ELSE c

iequal(c1, c2) == tolower(c1) = tolower(c2)

\* std::search(first, last, s_first, s_last, pred): the start of the first
\* occurrence, as an offset from first; Len(txt) stands for last
RECURSIVE search_from(_, _, _)
search_from(txt, tgt, k) ==
  IF k + Len(tgt) > Len(txt) THEN Len(txt)
  ELSE IF \A j \in 1..Len(tgt) : iequal(txt[k + j], tgt[j]) THEN k
  ELSE search_from(txt, tgt, k + 1)

search(txt, tgt) == search_from(txt, tgt, 0)

\* return it != text.end();
icontains(txt, tgt) == search(txt, tgt) # Len(txt)

RECURSIVE StringsUpTo(_)
StringsUpTo(n) ==
  IF n = 0 THEN {<<>>}
  ELSE LET shorter == StringsUpTo(n - 1)
       IN  shorter \cup {Append(w, c) : w \in {q \in shorter : Len(q) = n - 1}, c \in Chars}

Strings == StringsUpTo(MaxStr)

InitStr ==
  /\ SamplerInit
  /\ opsLeft = [t \in Threads |-> 0]
  /\ text \in Strings
  /\ target \in Strings
  /\ found = FALSE
  /\ spc = "start"

IcontainsCall ==
  /\ spc = "start"
  /\ found' = icontains(text, target)
  /\ spc' = "done"
  /\ UNCHANGED <<text, target>>
  /\ UNCHANGED samplerVars

NextStr == IcontainsCall

SpecStr == InitStr /\ [][NextStr]_vars


\* ================================================================ claims
Range(q) == {q[j] : j \in 1..Len(q)}
IsPickOne(op) == op \in {"vec_one", "arr_one"}
Returned(t) == pc[t] = "done"
\* thread t draws an index in this step: the draw of a single pick, or a loop iteration
Draws(t) ==
  \/ opsLeft'[t] # opsLeft[t] /\ call'[t].path = "one"
  \/ pc[t] = "loop" /\ i'[t] # i[t]
\* thread t begins a call in this step
Begins(t) == opsLeft'[t] # opsLeft[t]

\* C1: a single pick from a non-empty sequence S returns S[k] for the index k
\* it drew, 0 <= k <= length(S) - 1, with either sampler and either kind of
\* sequence; and no draw of any call yields an index outside S.
PickOneIsMember ==
  \A t \in Threads :
    /\ \A j \in 1..Len(drawn[t]) : drawn[t][j] \in 0..(Len(call[t].seq) - 1)
    /\ (Returned(t) /\ IsPickOne(call[t].op) /\ Len(call[t].seq) >= 1) =>
         \E k \in 0..(Len(call[t].seq) - 1) :
           /\ drawn[t] = <<k>>
           /\ retElem[t] = call[t].seq[k + 1]

\* a strict single pick from a two-element array, after two earlier calls, returns its last element
PickOneIsMemberWitness ==
  \E t \in Threads :
    /\ Returned(t)
    /\ opsLeft[t] = MaxOps - 3
    /\ call[t].sampler = "trng"
    /\ call[t].op = "arr_one"
    /\ Len(call[t].seq) = 2
    /\ retElem[t] = call[t].seq[2]

\* C2 as stated: pick_n(S, C) on a non-empty S returns exactly C elements, all
\* members of S; C = 0 gives an empty result, and C = 1 gives a one-element
\* result obtained through pick_one (the call takes the path through random(S)).
PickNCountOneThroughPickOne ==
  \A t \in Threads :
    (Returned(t) /\ IsPickN(call[t].op) /\ Len(call[t].seq) >= 1) =>
      /\ Len(retSeq[t]) = call[t].count
      /\ Range(retSeq[t]) \subseteq Range(call[t].seq)
      /\ (call[t].count = 1 => call[t].path = "one")

\* C2 amended: pick_n(S, C) on a non-empty S returns exactly C elements, all
\* members of S, one per draw; C = 0 gives an empty result without a draw;
\* C = 1 gives a one-element result, obtained through pick_one by the dynamic
\* overload and by one iteration of its own loop by the fixed-size overload.
PickNLengthAndMembers ==
  \A t \in Threads :
    (Returned(t) /\ IsPickN(call[t].op) /\ Len(call[t].seq) >= 1) =>
      /\ Len(retSeq[t]) = call[t].count
      /\ Range(retSeq[t]) \subseteq Range(call[t].seq)
      /\ Len(drawn[t]) = call[t].count
      /\ (call[t].count = 0 => retSeq[t] = <<>> /\ call[t].path = "zero")
      /\ (call[t].count = 1 /\ call[t].op = "vec_n" => call[t].path = "one")
      /\ (call[t].count = 1 /\ call[t].op = "arr_n" => call[t].path = "loop" /\ i[t] = 1)

\* a pick of two from a two-element vector returns the same element twice
PickNLengthAndMembersWitness ==
  \E t \in Threads :
    /\ Returned(t)
    /\ call[t].op = "vec_n"
    /\ call[t].count = 2
    /\ Len(call[t].seq) = 2
    /\ retSeq[t] = <<call[t].seq[2], call[t].seq[2]>>

\* C3: on an empty input every operation of both samplers returns at once,
\* without a draw: a single pick returns T{}, the dynamic pick_n returns an
\* empty vector for every count, the fixed-size pick_n returns an array of
\* Count default elements.
EmptyInputGivesDefault ==
  \A t \in Threads :
    (pc[t] # "idle" /\ Len(call[t].seq) = 0) =>
      /\ Returned(t)
      /\ call[t].path = "empty"
      /\ drawn[t] = <<>>
      /\ (IsPickOne(call[t].op) => retElem[t] = Default)
      /\ (call[t].op = "vec_n" => retSeq[t] = <<>>)
      /\ (call[t].op = "arr_n" =>
            /\ Len(retSeq[t]) = call[t].count
            /\ \A j \in 1..call[t].count : retSeq[t][j] = Default)

\* a fixed-size pick of two or more from an array of length 0 has returned
EmptyInputGivesDefaultWitness ==
  \E t \in Threads :
    /\ Returned(t)
    /\ Len(call[t].seq) = 0
    /\ call[t].op = "arr_n"
    /\ call[t].count >= 2
    /\ retSeq[t] = DefaultArr(call[t].count)

\* C4: every thread uses only its own generator and its own device: the
\* reference a running call holds is to the caller's instance, an instance has
\* been accessed by no thread but its owner, and no two running calls hold the
\* same instance.
ThreadConfinement ==
  \A t \in Threads :
    /\ engineRef[t] \in {0, t}
    /\ prngUsers[t] \subseteq {t}
    /\ trngUsers[t] \subseteq {t}
    /\ \A u \in Threads \ {t} :
         (/\ pc[t] = "loop"
          /\ pc[u] = "loop"
          /\ EngineOf(call[t].sampler) = EngineOf(call[u].sampler)) => engineRef[t] # engineRef[u]

\* two threads are inside the loop of a random_prng call at the same time, each having drawn
ThreadConfinementWitness ==
  /\ \A t \in Threads : t <= 2 =>
       /\ pc[t] = "loop"
       /\ call[t].sampler = "prng"
       /\ i[t] >= 1
       /\ prng[t].constructed
       /\ prng[t].pos >= 1

SeededOnce ==
  \A t \in Threads :
    /\ prng'[t].reads <= 1
    /\ prng[t].constructed =>
         /\ prng'[t].constructed
         /\ prng'[t].reads = prng[t].reads
         /\ prng'[t].pos >= prng[t].pos

\* C6 as stated: a thread's generator is seeded by at most one entropy read,
\* never re-seeded or replaced, and every draw of a random_prng call advances it.
EveryDrawAdvancesGenerator ==
  [][/\ SeededOnce
     /\ \A t \in Threads :
          (Draws(t) /\ call'[t].sampler = "prng") => prng'[t].pos > prng[t].pos]_vars

\* C6 amended: a thread's generator is seeded by at most one entropy read and
\* never re-seeded or replaced; every draw of a random_prng call is made on
\* that generator, advancing it when the sequence has two or more elements
\* (a draw over a one-element sequence may leave it where it is).
DrawsShareOneGenerator ==
  [][/\ SeededOnce
     /\ \A t \in Threads :
          (Draws(t) /\ call'[t].sampler = "prng") =>
            /\ prng'[t].constructed
            /\ prng'[t].pos >= prng[t].pos
            /\ Len(call'[t].seq) >= 2 => prng'[t].pos > prng[t].pos
            /\ queries'[t] = 0]_vars

\* a generator seeded once that has served the draws of more than one call
DrawsShareOneGeneratorWitness ==
  \E t \in Threads :
    /\ Returned(t)
    /\ call[t].sampler = "prng"
    /\ call[t].path = "loop"
    /\ prng[t].reads = 1
    /\ prng[t].pos > MaxCount * MaxCalls

ResultInDrawOrder ==
  \A t \in Threads :
    (pc[t] \in {"loop", "done"} /\ IsPickN(call[t].op) /\ call[t].count >= 2
       /\ Len(call[t].seq) >= 1) =>
      /\ call[t].seq = Input(Len(call[t].seq))
      /\ Len(drawn[t]) = i[t]
      /\ \A j \in 1..i[t] :
           /\ drawn[t][j] \in 0..(Len(call[t].seq) - 1)
           /\ retSeq[t][j] = call[t].seq[drawn[t][j] + 1]
      /\ (call[t].op = "vec_n" => Len(retSeq[t]) = i[t])
      /\ (Returned(t) => i[t] = call[t].count /\ Len(retSeq[t]) = call[t].count)

\* the indices 0, 1 drawn in that order from <<2, 1>> give <<2, 1>>, unsorted
ResultInDrawOrderWitness ==
  \E t \in Threads :
    /\ Returned(t)
    /\ call[t].op = "vec_n"
    /\ call[t].count = 2
    /\ drawn[t] = <<0, 1>>
    /\ retSeq[t] = <<2, 1>>

\* C10: icontains(text, target) is true exactly when target occurs in text as a
\* contiguous run of characters, compared with iequal; the empty target
\* occurs in every text, the empty one included.
Occurs(txt, tgt) ==
  \E k \in 0..Len(txt) :
    /\ k + Len(tgt) <= Len(txt)
    /\ \A j \in 1..Len(tgt) : iequal(txt[k + j], tgt[j])

IcontainsIffOccurs == spc = "done" => (found <=> Occurs(text, target))

====
